---- MODULE Spec2Model ----
(***************************************************************************)
(* The cooking-session subsystem (the cook routes): the in-memory session  *)
(* store, the per-session setInterval timers, the delayed removal after    *)
(* stop and the action dispatcher.  One action of the model is one         *)
(* callback of the event loop (an HTTP handler, an interval callback, a    *)
(* timeout callback) or the passing of one tick period of time.            *)
(*                                                                         *)
(* Time is counted in tick periods (the 1000 ms of setInterval).  A        *)
(* callback whose time has come runs before time passes further.           *)
(***************************************************************************)
EXTENDS Integers, Sequences, FiniteSets, TLC

VARIABLES
  sessions,        \* Map session id -> CookSession           (const sessions)
  timerIntervals,  \* Map session id -> interval handle       (const timerIntervals)
  intervals,       \* the runtime's live setInterval timers: [id, sid, due]
  timeouts,        \* the runtime's pending setTimeout removals: [sid, due]
  sseClients,      \* Map session id -> the open event streams of the session,
                   \* in the order they were added         (const sseClients)
  severed,         \* the event streams on which a write throws
  inbox,           \* per event stream: what the last callback wrote to it
  now,             \* the clock, in tick periods
  issued,          \* the session ids randomUUID has given out
  adjusts,         \* how many add_time and set_time requests were served
  sinceNext,       \* for a session whose last served action, pauses aside, was
                   \* a next that found it cooking and moved it one step on:
                   \* the timer callbacks of the session that have run since
  out,             \* the events broadcast by the last callback, in order
  resp,            \* the HTTP response of the last request
  search,          \* recipes.search: the module's state, the inputs of the
                   \* calls under study and what each call returned
  last             \* the last callback: its kind (for a request to POST /action
                   \* the action name), the session id it was given, the
                   \* status, step and remaining time that session had before
                   \* it, whether a timer of the session was live before it,
                   \* the value field of the request (POST /action), what the
                   \* timeline lookup gave (POST /start), the event stream
                   \* (GET /events),
                   \* and whether it left the world as it found it

cookVars == <<sessions, timerIntervals, intervals, timeouts, sseClients, severed,
              inbox, now, issued, adjusts, sinceNext, out, resp, last>>

vars == <<cookVars, search>>

---------------------------------------------------------------------------
(* Bounds of the model *)

MaxTime == 1          \* tick periods the clock runs
MaxAdjust == 1        \* add_time and set_time requests served in one run
GracePeriods == 1     \* the removal delay after stop, in tick periods; 60 in the
                      \* source (60000 ms), scaled down with the clock

(* Program constants *)

DefaultAddSec == 60   \* parseInt(value, 10) || 60

\* The ids randomUUID can give.  Sessions share no state: every handler and
\* callback reads and writes only the session whose id it is given.
SessionIds == {"s1"}
NoSid == ""                       \* a request that carries no session_id
UnknownSid == "does-not-exist"    \* an id randomUUID never gave

\* The event streams (the res objects of GET /events) that can be open at once
Listeners == {"l1", "l2"}
NoListener == ""

---------------------------------------------------------------------------
(* Step timelines *)

Step(order, timer) == [step_order |-> order, timer_sec |-> timer]

\* getMockTimeline: seven steps, step_order 1..7
getMockTimeline ==
  << Step(1, 0), Step(2, 0), Step(3, 60), Step(4, 180),
     Step(5, 30), Step(6, 480), Step(7, 0) >>

\* Rows of recipe_step as the lookup returns them, ordered by step_order.
\* timer_sec is a nullable column: a row without the field has NULL there.
DbTimelines ==
  { << [step_order |-> 1], Step(2, 2) >>,
    << Step(1, 1) >> }

\* What the lookup of POST /start can give: an error, no rows, or rows.
DbResults == {<<"error">>, <<"rows", <<>> >>} \cup {<<"rows", t>> : t \in DbTimelines}

\* steps[i]?.timer_sec || 0, i 0-based
TimerSecOf(steps, i) ==
  IF i + 1 \in DOMAIN steps /\ "timer_sec" \in DOMAIN steps[i + 1]
  THEN steps[i + 1].timer_sec
  ELSE 0

\* steps[i]?.step_order, i 0-based (0 stands for undefined)
StepOrderOf(steps, i) ==
  IF i + 1 \in DOMAIN steps THEN steps[i + 1].step_order ELSE 0

---------------------------------------------------------------------------
(* Request values and parseInt *)

\* The value field of an action request: absent, a JSON number, or a JSON
\* string made of an optional minus sign, leading digits and possibly more text.
Undefined == [kind |-> "undefined"]
Num(n) == [kind |-> "number", n |-> n]
Str(neg, digits, tail) == [kind |-> "string", neg |-> neg, digits |-> digits, tail |-> tail]

Values ==
  { Undefined, Num(0), Num(-1),
    Str(FALSE, <<>>, TRUE),        \* "abc"
    Str(FALSE, <<2>>, TRUE) }      \* "2x"

RECURSIVE DigitsValue(_)
DigitsValue(ds) ==
  IF ds = <<>> THEN 0
  ELSE 10 * DigitsValue(SubSeq(ds, 1, Len(ds) - 1)) + ds[Len(ds)]

NaN == [nan |-> TRUE]
Int_(n) == [nan |-> FALSE, n |-> n]

\* parseInt(value, 10): the leading integer of the text form, NaN when the
\* text does not start with one
parseInt(v) ==
  CASE v.kind = "undefined" -> NaN
    [] v.kind = "number" -> Int_(v.n)
    [] v.kind = "string" ->
         IF v.digits = <<>> THEN NaN
         ELSE Int_(IF v.neg THEN 0 - DigitsValue(v.digits) ELSE DigitsValue(v.digits))

---------------------------------------------------------------------------
(* The mutable world a callback works on *)

\* Nothing written to any event stream
NoWrites == [l \in Listeners |-> << >>]

World ==
  [sessions |-> sessions, timerIntervals |-> timerIntervals,
   intervals |-> intervals, timeouts |-> timeouts,
   sseClients |-> sseClients, severed |-> severed, inbox |-> NoWrites,
   now |-> now, out |-> <<>>]

Event(name, sid, data) == [event |-> name, session_id |-> sid, data |-> data]

\* res.write(message): the message reaches the stream unless the write throws
resWrite(w, l, msg) ==
  IF l \in w.severed THEN w ELSE [w EXCEPT !.inbox[l] = Append(@, msg)]

\* clients.forEach(res => { try { res.write(message) } catch {} })
RECURSIVE writeEach(_, _, _)
writeEach(w, clients, msg) ==
  IF clients = << >> THEN w
  ELSE writeEach(resWrite(w, Head(clients), msg), Tail(clients), msg)

\* forEach inside one try: the first write that throws ends the loop
RECURSIVE writeUntilThrow(_, _, _)
writeUntilThrow(w, clients, msg) ==
  IF clients = << >> \/ Head(clients) \in w.severed THEN w
  ELSE writeUntilThrow(resWrite(w, Head(clients), msg), Tail(clients), msg)

\* broadcastToSession with one try around the whole loop
broadcastToSessionOneTry(w, sid, name, data) ==
  LET w1 == [w EXCEPT !.out = Append(@, Event(name, sid, data))]
  IN IF sid \notin DOMAIN w.sseClients THEN w1
     ELSE writeUntilThrow(w1, w.sseClients[sid], Event(name, sid, data))

\* broadcastToSession: the event is written to each listener of the session;
\* out keeps the events that were published, listeners or not
broadcastToSession(w, sid, name, data) ==
  LET w1 == [w EXCEPT !.out = Append(@, Event(name, sid, data))]
  IN IF sid \notin DOMAIN w.sseClients THEN w1
     ELSE writeEach(w1, w.sseClients[sid], Event(name, sid, data))

MapRemove(m, k) == [x \in DOMAIN m \ {k} |-> m[x]]
MapSet(m, k, v) == [x \in DOMAIN m \cup {k} |-> IF x = k THEN v ELSE m[x]]

\* A handle for a new timer object: any identity no live or registered timer has
FreshTimer(w) ==
  CHOOSE i \in 1..(Cardinality(w.intervals) + Cardinality(DOMAIN w.timerIntervals) + 1) :
    /\ \A iv \in w.intervals : iv.id # i
    /\ \A s \in DOMAIN w.timerIntervals : w.timerIntervals[s] # i

stopTimer(w, sid) ==
  IF sid \in DOMAIN w.timerIntervals
  THEN [w EXCEPT !.intervals = {iv \in @ : iv.id # w.timerIntervals[sid]},
                 !.timerIntervals = MapRemove(@, sid)]
  ELSE w

\* startTimer that does not clear the timer already registered
startTimerNoStop(w, sid) ==
  IF sid \notin DOMAIN w.sessions \/ w.sessions[sid].timer_remaining_sec <= 0
  THEN w
  ELSE LET id == FreshTimer(w)
       IN [w EXCEPT !.sessions[sid].status = "cooking",
                    !.intervals = @ \cup {[id |-> id, sid |-> sid, due |-> w.now + 1]},
                    !.timerIntervals = MapSet(@, sid, id)]

startTimer(w, sid) ==
  IF sid \notin DOMAIN w.sessions \/ w.sessions[sid].timer_remaining_sec <= 0
  THEN w
  ELSE LET w1 == stopTimer(w, sid)
           id == FreshTimer(w1)
       IN [w1 EXCEPT !.sessions[sid].status = "cooking",
                     !.intervals = @ \cup {[id |-> id, sid |-> sid, due |-> w.now + 1]},
                     !.timerIntervals = MapSet(@, sid, id)]

pauseTimer(w, sid) ==
  IF sid \notin DOMAIN w.sessions THEN w
  ELSE [stopTimer(w, sid) EXCEPT !.sessions[sid].status = "paused"]

\* resumeTimer that starts the step's countdown over
resumeTimerRestart(w, sid) ==
  IF sid \notin DOMAIN w.sessions \/ w.sessions[sid].status # "paused" THEN w
  ELSE LET s == w.sessions[sid]
           w1 == [w EXCEPT !.sessions[sid].timer_remaining_sec =
                     TimerSecOf(s.steps, s.current_step)]
       IN IF w1.sessions[sid].timer_remaining_sec > 0
          THEN startTimer(w1, sid)
          ELSE [w1 EXCEPT !.sessions[sid].status = "cooking"]

resumeTimer(w, sid) ==
  IF sid \notin DOMAIN w.sessions \/ w.sessions[sid].status # "paused" THEN w
  ELSE IF w.sessions[sid].timer_remaining_sec > 0
       THEN startTimer(w, sid)
       ELSE [w EXCEPT !.sessions[sid].status = "cooking"]

\* The callback without the stopTimer at the end of the countdown
intervalCallbackNoStop(w, sid) ==
  IF sid \notin DOMAIN w.sessions \/ w.sessions[sid].status # "cooking"
  THEN stopTimer(w, sid)
  ELSE LET w1 == [w EXCEPT !.sessions[sid].timer_remaining_sec = @ - 1]
           s == w1.sessions[sid]
           w2 == broadcastToSession(w1, sid, "timer_tick",
                   [remaining_sec |-> s.timer_remaining_sec,
                    current_step |-> s.current_step])
       IN IF s.timer_remaining_sec <= 0
          THEN broadcastToSession(w2, sid, "timer_done",
                 [step_order |-> StepOrderOf(s.steps, s.current_step)])
          ELSE w2

\* The callback that returns without clearing its timer when the session is
\* gone or not cooking
intervalCallbackNoCancel(w, sid) ==
  IF sid \notin DOMAIN w.sessions \/ w.sessions[sid].status # "cooking"
  THEN w
  ELSE LET w1 == [w EXCEPT !.sessions[sid].timer_remaining_sec = @ - 1]
           s == w1.sessions[sid]
           w2 == broadcastToSession(w1, sid, "timer_tick",
                   [remaining_sec |-> s.timer_remaining_sec,
                    current_step |-> s.current_step])
       IN IF s.timer_remaining_sec <= 0
          THEN broadcastToSession(stopTimer(w2, sid), sid, "timer_done",
                 [step_order |-> StepOrderOf(s.steps, s.current_step)])
          ELSE w2

\* The callback that moves on to the following step when the countdown ends
intervalCallbackAutoAdvance(w, sid) ==
  IF sid \notin DOMAIN w.sessions \/ w.sessions[sid].status # "cooking"
  THEN stopTimer(w, sid)
  ELSE LET w1 == [w EXCEPT !.sessions[sid].timer_remaining_sec = @ - 1]
           s == w1.sessions[sid]
           w2 == broadcastToSession(w1, sid, "timer_tick",
                   [remaining_sec |-> s.timer_remaining_sec,
                    current_step |-> s.current_step])
       IN IF s.timer_remaining_sec <= 0
          THEN LET w3 == broadcastToSession(stopTimer(w2, sid), sid, "timer_done",
                           [step_order |-> StepOrderOf(s.steps, s.current_step)])
               IN IF s.current_step < Len(s.steps) - 1
                  THEN [w3 EXCEPT !.sessions[sid].current_step = @ + 1]
                  ELSE w3
          ELSE w2

\* The callback of setInterval in startTimer
intervalCallback(w, sid) ==
  IF sid \notin DOMAIN w.sessions \/ w.sessions[sid].status # "cooking"
  THEN stopTimer(w, sid)
  ELSE LET w1 == [w EXCEPT !.sessions[sid].timer_remaining_sec = @ - 1]
           s == w1.sessions[sid]
           w2 == broadcastToSession(w1, sid, "timer_tick",
                   [remaining_sec |-> s.timer_remaining_sec,
                    current_step |-> s.current_step])
       IN IF s.timer_remaining_sec <= 0
          THEN broadcastToSession(stopTimer(w2, sid), sid, "timer_done",
                 [step_order |-> StepOrderOf(s.steps, s.current_step)])
          ELSE w2

---------------------------------------------------------------------------
(* POST /cook/action *)

Actions ==
  {"start", "next", "prev", "pause", "resume", "add_time", "set_time",
   "repeat", "stop"}

\* An action name the switch does not know
UnknownActions == {"bogus"}

Sess(w, sid) == w.sessions[sid]
CurStep(w, sid) == Sess(w, sid).current_step
CurOrder(w, sid) == StepOrderOf(Sess(w, sid).steps, CurStep(w, sid))

caseStart(w, sid) ==
  LET w1 == [w EXCEPT !.sessions[sid].status = "cooking"]
      w2 == IF Sess(w1, sid).timer_remaining_sec > 0 THEN startTimer(w1, sid) ELSE w1
  IN broadcastToSession(w2, sid, "step_started", [step_order |-> CurOrder(w2, sid)])

\* next without the test for the last step
caseNextNoGuard(w, sid) ==
  LET w1 == stopTimer(w, sid)
      w2 == broadcastToSession(w1, sid, "step_completed",
              [step_order |-> CurOrder(w1, sid)])
      w3 == [w2 EXCEPT !.sessions[sid].current_step = @ + 1]
      w4 == [w3 EXCEPT !.sessions[sid].timer_remaining_sec =
                 TimerSecOf(Sess(w3, sid).steps, CurStep(w3, sid))]
      w5 == broadcastToSession(w4, sid, "step_started",
              [step_order |-> CurOrder(w4, sid)])
  IN IF Sess(w5, sid).status = "cooking" /\ Sess(w5, sid).timer_remaining_sec > 0
     THEN startTimer(w5, sid)
     ELSE w5

\* next that moves on only while the session is cooking
caseNextOnlyCooking(w, sid) ==
  IF Sess(w, sid).status # "cooking" /\ CurStep(w, sid) < Len(Sess(w, sid).steps) - 1
  THEN w
  ELSE IF CurStep(w, sid) < Len(Sess(w, sid).steps) - 1
  THEN LET w1 == stopTimer(w, sid)
           w2 == broadcastToSession(w1, sid, "step_completed",
                   [step_order |-> CurOrder(w1, sid)])
           w3 == [w2 EXCEPT !.sessions[sid].current_step = @ + 1]
           w4 == [w3 EXCEPT !.sessions[sid].timer_remaining_sec =
                      TimerSecOf(Sess(w3, sid).steps, CurStep(w3, sid))]
           w5 == broadcastToSession(w4, sid, "step_started",
                   [step_order |-> CurOrder(w4, sid)])
       IN IF Sess(w5, sid).timer_remaining_sec > 0 THEN startTimer(w5, sid) ELSE w5
  ELSE LET w1 == [stopTimer(w, sid) EXCEPT !.sessions[sid].status = "completed"]
       IN broadcastToSession(w1, sid, "cook_complete",
            [total_steps |-> Len(Sess(w1, sid).steps)])

\* next that moves the step pointer before it announces the completed step
caseNextLateCompleted(w, sid) ==
  IF CurStep(w, sid) < Len(Sess(w, sid).steps) - 1
  THEN LET w1 == stopTimer(w, sid)
           w2 == [w1 EXCEPT !.sessions[sid].current_step = @ + 1]
           w3 == [w2 EXCEPT !.sessions[sid].timer_remaining_sec =
                      TimerSecOf(Sess(w2, sid).steps, CurStep(w2, sid))]
           w4 == broadcastToSession(w3, sid, "step_completed",
                   [step_order |-> CurOrder(w3, sid)])
           w5 == broadcastToSession(w4, sid, "step_started",
                   [step_order |-> CurOrder(w4, sid)])
       IN IF Sess(w5, sid).status = "cooking" /\ Sess(w5, sid).timer_remaining_sec > 0
          THEN startTimer(w5, sid)
          ELSE w5
  ELSE LET w1 == [stopTimer(w, sid) EXCEPT !.sessions[sid].status = "completed"]
       IN broadcastToSession(w1, sid, "cook_complete",
            [total_steps |-> Len(Sess(w1, sid).steps)])

\* next that leaves the new step's timer to a later start
caseNextNoAutoStart(w, sid) ==
  IF CurStep(w, sid) < Len(Sess(w, sid).steps) - 1
  THEN LET w1 == stopTimer(w, sid)
           w2 == broadcastToSession(w1, sid, "step_completed",
                   [step_order |-> CurOrder(w1, sid)])
           w3 == [w2 EXCEPT !.sessions[sid].current_step = @ + 1]
           w4 == [w3 EXCEPT !.sessions[sid].timer_remaining_sec =
                      TimerSecOf(Sess(w3, sid).steps, CurStep(w3, sid))]
       IN broadcastToSession(w4, sid, "step_started",
            [step_order |-> CurOrder(w4, sid)])
  ELSE LET w1 == [stopTimer(w, sid) EXCEPT !.sessions[sid].status = "completed"]
       IN broadcastToSession(w1, sid, "cook_complete",
            [total_steps |-> Len(Sess(w1, sid).steps)])

caseNext(w, sid) ==
  IF CurStep(w, sid) < Len(Sess(w, sid).steps) - 1
  THEN LET w1 == stopTimer(w, sid)
           w2 == broadcastToSession(w1, sid, "step_completed",
                   [step_order |-> CurOrder(w1, sid)])
           w3 == [w2 EXCEPT !.sessions[sid].current_step = @ + 1]
           w4 == [w3 EXCEPT !.sessions[sid].timer_remaining_sec =
                      TimerSecOf(Sess(w3, sid).steps, CurStep(w3, sid))]
           w5 == broadcastToSession(w4, sid, "step_started",
                   [step_order |-> CurOrder(w4, sid)])
       IN IF Sess(w5, sid).status = "cooking" /\ Sess(w5, sid).timer_remaining_sec > 0
          THEN startTimer(w5, sid)
          ELSE w5
  ELSE LET w1 == [stopTimer(w, sid) EXCEPT !.sessions[sid].status = "completed"]
       IN broadcastToSession(w1, sid, "cook_complete",
            [total_steps |-> Len(Sess(w1, sid).steps)])

\* prev that leaves the running timer alone
casePrevNoStop(w, sid) ==
  IF CurStep(w, sid) > 0
  THEN LET w2 == [w EXCEPT !.sessions[sid].current_step = @ - 1]
           w3 == [w2 EXCEPT !.sessions[sid].timer_remaining_sec =
                      TimerSecOf(Sess(w2, sid).steps, CurStep(w2, sid))]
       IN broadcastToSession(w3, sid, "step_started", [step_order |-> CurOrder(w3, sid)])
  ELSE w

\* prev that starts the timer of the step it goes back to
casePrevRestart(w, sid) ==
  IF CurStep(w, sid) > 0
  THEN LET w1 == stopTimer(w, sid)
           w2 == [w1 EXCEPT !.sessions[sid].current_step = @ - 1]
           w3 == [w2 EXCEPT !.sessions[sid].timer_remaining_sec =
                      TimerSecOf(Sess(w2, sid).steps, CurStep(w2, sid))]
           w4 == broadcastToSession(w3, sid, "step_started",
                   [step_order |-> CurOrder(w3, sid)])
       IN IF Sess(w4, sid).status = "cooking" /\ Sess(w4, sid).timer_remaining_sec > 0
          THEN startTimer(w4, sid)
          ELSE w4
  ELSE w

casePrev(w, sid) ==
  IF CurStep(w, sid) > 0
  THEN LET w1 == stopTimer(w, sid)
           w2 == [w1 EXCEPT !.sessions[sid].current_step = @ - 1]
           w3 == [w2 EXCEPT !.sessions[sid].timer_remaining_sec =
                      TimerSecOf(Sess(w2, sid).steps, CurStep(w2, sid))]
       IN broadcastToSession(w3, sid, "step_started", [step_order |-> CurOrder(w3, sid)])
  ELSE w

casePause(w, sid) ==
  broadcastToSession(pauseTimer(w, sid), sid, "paused", [none |-> TRUE])

caseResume(w, sid) ==
  broadcastToSession(resumeTimer(w, sid), sid, "resumed", [none |-> TRUE])

\* parseInt(value, 10) || 60: NaN and 0 are both falsy
AddSec(value) ==
  LET p == parseInt(value)
  IN IF p.nan \/ p.n = 0 THEN DefaultAddSec ELSE p.n

caseAddTime(w, sid, value) ==
  LET addSec == AddSec(value)
      w1 == [w EXCEPT !.sessions[sid].timer_remaining_sec = @ + addSec]
  IN broadcastToSession(w1, sid, "timer_adjusted",
       [added_sec |-> addSec, remaining_sec |-> Sess(w1, sid).timer_remaining_sec])

\* set_time that takes every number parseInt gives
caseSetTimeAnyNumber(w, sid, value) ==
  LET setSec == parseInt(value)
  IN IF ~setSec.nan
     THEN LET w1 == [w EXCEPT !.sessions[sid].timer_remaining_sec = setSec.n]
          IN broadcastToSession(w1, sid, "timer_adjusted",
               [set_sec |-> setSec.n, remaining_sec |-> setSec.n])
     ELSE w

caseSetTime(w, sid, value) ==
  LET setSec == parseInt(value)
  IN IF ~setSec.nan /\ setSec.n >= 0
     THEN LET w1 == [w EXCEPT !.sessions[sid].timer_remaining_sec = setSec.n]
          IN broadcastToSession(w1, sid, "timer_adjusted",
               [set_sec |-> setSec.n, remaining_sec |-> setSec.n])
     ELSE w

caseRepeat(w, sid) ==
  broadcastToSession(w, sid, "instruction_repeat", [step_order |-> CurOrder(w, sid)])

\* setTimeout(callback, 60000): the callback is due one grace delay from now.
\* A timeout due after the clock's last period cannot run in the model and is
\* kept as due right after that period.
DueAfterGrace(t) ==
  IF t + GracePeriods <= MaxTime THEN t + GracePeriods ELSE MaxTime + 1

caseStop(w, sid) ==
  LET w1 == [stopTimer(w, sid) EXCEPT !.sessions[sid].status = "completed"]
      w2 == broadcastToSession(w1, sid, "cook_stopped", [none |-> TRUE])
  IN [w2 EXCEPT !.timeouts = @ \cup {[sid |-> sid, due |-> DueAfterGrace(w.now)]}]

\* The callback of the setTimeout of stop: sessions.delete(session_id)
timeoutCallback(w, sid) == [w EXCEPT !.sessions = MapRemove(@, sid)]

switchAction(w, sid, action, value) ==
  CASE action = "start" -> caseStart(w, sid)
    [] action = "next" -> caseNext(w, sid)
    [] action = "prev" -> casePrev(w, sid)
    [] action = "pause" -> casePause(w, sid)
    [] action = "resume" -> caseResume(w, sid)
    [] action = "add_time" -> caseAddTime(w, sid, value)
    [] action = "set_time" -> caseSetTime(w, sid, value)
    [] action = "repeat" -> caseRepeat(w, sid)
    [] action = "stop" -> caseStop(w, sid)

Reject(w, code) == [w |-> w, resp |-> [code |-> code, ok |-> FALSE]]

\* The handler stamping updated_at before it looks at the action name
postActionStampFirst(w, sid, action, value) ==
  IF sid = NoSid THEN Reject(w, 400)
  ELSE IF sid \notin DOMAIN w.sessions THEN Reject(w, 404)
  ELSE LET w0 == [w EXCEPT !.sessions[sid].updated_at = w.now]
       IN IF action \notin Actions THEN Reject(w0, 400)
          ELSE LET w2 == switchAction(w0, sid, action, value)
                   s == Sess(w2, sid)
               IN [w |-> w2,
                   resp |-> [code |-> 200, ok |-> TRUE, current_step |-> s.current_step,
                             status |-> s.status,
                             timer_remaining_sec |-> s.timer_remaining_sec]]

\* The handler of POST /action: the world after it and its response
postAction(w, sid, action, value) ==
  IF sid = NoSid THEN Reject(w, 400)
  ELSE IF sid \notin DOMAIN w.sessions THEN Reject(w, 404)
  ELSE IF action \notin Actions THEN Reject(w, 400)
  ELSE LET w1 == switchAction(w, sid, action, value)
           w2 == [w1 EXCEPT !.sessions[sid].updated_at = w.now]
           s == Sess(w2, sid)
       IN [w |-> w2,
           resp |-> [code |-> 200, ok |-> TRUE, current_step |-> s.current_step,
                     status |-> s.status,
                     timer_remaining_sec |-> s.timer_remaining_sec]]

---------------------------------------------------------------------------
(* POST /cook/start and GET /cook/session/:id *)

\* The timeline lookup of a request: no database client on the request, or
\* one of the results the client can give
Lookups == {<<"no-client">>} \cup DbResults

\* The timeline taken from the lookup whenever it gave rows, even none
stepsForAnyRows(lookup) ==
  IF lookup[1] = "rows" THEN lookup[2] ELSE getMockTimeline

stepsFor(lookup) ==
  IF lookup[1] = "rows" /\ Len(lookup[2]) > 0 THEN lookup[2] ELSE getMockTimeline

\* The handler of POST /start; hasRecipe is whether recipe_id is given, sid is
\* the id randomUUID() returns
postStart(w, hasRecipe, lookup, sid) ==
  IF ~hasRecipe THEN Reject(w, 400)
  ELSE LET steps == stepsFor(lookup)
           session == [current_step |-> 0, status |-> "idle",
                       timer_remaining_sec |-> TimerSecOf(steps, 0),
                       steps |-> steps, updated_at |-> w.now]
       IN [w |-> [w EXCEPT !.sessions = MapSet(@, sid, session)],
           resp |-> [code |-> 200, ok |-> TRUE, current_step |-> 0,
                     status |-> "idle",
                     timer_remaining_sec |-> TimerSecOf(steps, 0)]]

\* The handler of GET /session/:id
getSession(w, sid) ==
  IF sid \notin DOMAIN w.sessions THEN Reject(w, 404)
  ELSE LET s == Sess(w, sid)
       IN [w |-> w,
           resp |-> [code |-> 200, ok |-> TRUE, current_step |-> s.current_step,
                     status |-> s.status,
                     timer_remaining_sec |-> s.timer_remaining_sec]]

---------------------------------------------------------------------------
(* GET /cook/events *)

\* The listeners registered for a session, in the order they were added
ClientsOf(w, sid) == IF sid \in DOMAIN w.sseClients THEN w.sseClients[sid] ELSE << >>

Range(seq) == {seq[i] : i \in DOMAIN seq}

\* The snapshot state_sync carries
StateSync(w, sid) ==
  LET s == Sess(w, sid)
  IN Event("state_sync", sid,
       [current_step |-> s.current_step, status |-> s.status,
        timer_remaining_sec |-> s.timer_remaining_sec,
        step |-> s.steps[s.current_step + 1]])

StreamOpened == [code |-> 200, ok |-> TRUE, stream |-> TRUE]

\* The handler that registers the stream and leaves the snapshot to a later
\* request
getEventsNoSync(w, sid, l) ==
  IF sid = NoSid \/ sid \notin DOMAIN w.sessions THEN Reject(w, 400)
  ELSE LET w1 == resWrite(w, l, Event("connected", sid, [session_id |-> sid]))
           w2 == [w1 EXCEPT !.sseClients = MapSet(@, sid, Append(ClientsOf(w1, sid), l))]
       IN [w |-> w2, resp |-> StreamOpened]

\* The handler of GET /events; l is the response object of the request
getEvents(w, sid, l) ==
  IF sid = NoSid \/ sid \notin DOMAIN w.sessions THEN Reject(w, 400)
  ELSE LET w1 == resWrite(w, l, Event("connected", sid, [session_id |-> sid]))
           w2 == [w1 EXCEPT !.sseClients = MapSet(@, sid, Append(ClientsOf(w1, sid), l))]
           w3 == IF sid \in DOMAIN w2.sessions
                 THEN resWrite(w2, l, StateSync(w2, sid))
                 ELSE w2
       IN [w |-> w3, resp |-> StreamOpened]

\* The handler of req.on('close') of the stream l of session sid
onClose(w, sid, l) ==
  IF sid \notin DOMAIN w.sseClients THEN w
  ELSE LET rest == SelectSeq(w.sseClients[sid], LAMBDA x : x # l)
       IN [w EXCEPT !.sseClients =
             IF rest = << >> THEN MapRemove(@, sid) ELSE MapSet(@, sid, rest)]

---------------------------------------------------------------------------
(* The state machine *)

NoResp == [code |-> 0, ok |-> FALSE]

\* The record of a callback that looks at no session
Note(op) ==
  [op |-> op, sid |-> NoSid, value |-> Undefined, lookup |-> <<"none">>,
   listener |-> NoListener, from |-> "none", step |-> -1,
   timer |-> 0, live |-> FALSE, same |-> FALSE]

\* No call of recipes.search is under study
NoSearch == [calls |-> 0]

InitCook ==
  /\ sessions = << >>
  /\ timerIntervals = << >>
  /\ intervals = {}
  /\ timeouts = {}
  /\ sseClients = << >>
  /\ severed = {}
  /\ inbox = NoWrites
  /\ now = 0
  /\ issued = {}
  /\ adjusts = 0
  /\ sinceNext = << >>
  /\ out = << >>
  /\ resp = NoResp
  /\ last = Note("init")

Init == InitCook /\ search = NoSearch

\* The world a callback leaves behind becomes the state
Commit(w) ==
  /\ sessions' = w.sessions
  /\ timerIntervals' = w.timerIntervals
  /\ intervals' = w.intervals
  /\ timeouts' = w.timeouts
  /\ sseClients' = w.sseClients
  /\ severed' = w.severed
  /\ inbox' = w.inbox
  /\ out' = w.out

\* The record of a callback that is given session id sid and leaves world w:
\* what the session was like before it, and whether w is the world it found
Did(op, sid, w) ==
  LET known == sid \in DOMAIN sessions
  IN [op |-> op, sid |-> sid, value |-> Undefined, lookup |-> <<"none">>,
      listener |-> NoListener,
      from |-> IF known THEN sessions[sid].status ELSE "none",
      step |-> IF known THEN sessions[sid].current_step ELSE -1,
      timer |-> IF known THEN sessions[sid].timer_remaining_sec ELSE 0,
      live |-> \E iv \in intervals : iv.sid = sid,
      same |-> w = World]

\* The session ids a request can name: none, a known one, one never issued
RequestSids == {NoSid, UnknownSid} \cup SessionIds

\* The requests that adjust the time of a session
Adjusts(sid, action) ==
  sid \in DOMAIN sessions /\ action \in {"add_time", "set_time"}

\* Only add_time and set_time read the value
ValuesOf(action) == IF action \in {"add_time", "set_time"} THEN Values ELSE {Undefined}

\* One request to POST /start; randomUUID() gives an id not issued before
CookStart ==
  \E hasRecipe \in BOOLEAN, lookup \in Lookups :
    /\ hasRecipe => issued # SessionIds
    /\ ~hasRecipe => lookup = <<"no-client">>    \* rejected before any lookup
    /\ LET sid == IF hasRecipe THEN CHOOSE s \in SessionIds : s \notin issued ELSE NoSid
           r == postStart(World, hasRecipe, lookup, sid)
       IN /\ Commit(r.w)
          /\ resp' = r.resp
          /\ issued' = IF hasRecipe THEN issued \cup {sid} ELSE issued
          /\ last' = [Did("create", sid, r.w) EXCEPT !.lookup = lookup]
    /\ UNCHANGED <<search, now, adjusts, sinceNext>>

\* One request to POST /action
DoAction(sid, action, value) ==
  /\ Adjusts(sid, action) => adjusts < MaxAdjust
  /\ LET r == postAction(World, sid, action, value)
     IN /\ Commit(r.w)
        /\ resp' = r.resp
        /\ last' = [Did(action, sid, r.w) EXCEPT !.value = value]
        /\ sinceNext' =
             IF ~r.resp.ok \/ action = "pause" THEN sinceNext
             ELSE IF /\ action = "next"
                     /\ sessions[sid].status = "cooking"
                     /\ r.w.sessions[sid].current_step # sessions[sid].current_step
                  THEN MapSet(sinceNext, sid, 0)
                  ELSE MapRemove(sinceNext, sid)
  /\ adjusts' = IF Adjusts(sid, action) THEN adjusts + 1 ELSE adjusts
  /\ UNCHANGED <<search, now, issued>>

\* The handler looks at the session id first: for an id that names no session
\* one action name stands for all of them
ActionsFor(sid) ==
  IF sid \in SessionIds THEN Actions \cup UnknownActions ELSE {"start"}

CookAction ==
  \E sid \in RequestSids :
    \E action \in ActionsFor(sid) :
      \E value \in ValuesOf(action) : DoAction(sid, action, value)

\* One request to GET /session/:id
CookSession ==
  \E sid \in RequestSids \ {NoSid} :
    /\ LET r == getSession(World, sid)
       IN /\ Commit(r.w)
          /\ resp' = r.resp
          /\ last' = Did("query", sid, r.w)
    /\ UNCHANGED <<search, now, issued, adjusts, sinceNext>>

\* A live interval whose period has elapsed runs its callback and, unless the
\* callback cleared it, is due again one period later
IntervalFire ==
  \E iv \in intervals :
    /\ iv.due <= now
    /\ LET w == intervalCallback(World, iv.sid)
           again == [iv EXCEPT !.due = @ + 1]
           w1 == [w EXCEPT !.intervals =
                    IF iv \in @ THEN (@ \ {iv}) \cup {again} ELSE @]
       IN /\ Commit(w1)
          /\ last' = Did("tick", iv.sid, w1)
    /\ sinceNext' = IF iv.sid \in DOMAIN sinceNext
                    THEN [sinceNext EXCEPT ![iv.sid] = @ + 1]
                    ELSE sinceNext
    /\ resp' = NoResp
    /\ UNCHANGED <<search, now, issued, adjusts>>

\* A timeout that is due runs its callback, once
TimeoutFire ==
  \E to \in timeouts :
    /\ to.due <= now
    /\ LET w == timeoutCallback(World, to.sid)
           w1 == [w EXCEPT !.timeouts = @ \ {to}]
       IN /\ Commit(w1)
          /\ last' = Did("reap", to.sid, w1)
    /\ resp' = NoResp
    /\ sinceNext' = MapRemove(sinceNext, to.sid)
    /\ UNCHANGED <<search, now, issued, adjusts>>

\* One tick period passes, once every callback that is due has run
AdvanceTime ==
  /\ now < MaxTime
  /\ \A iv \in intervals : iv.due > now
  /\ \A to \in timeouts : to.due > now
  /\ now' = now + 1
  /\ out' = << >>
  /\ inbox' = NoWrites
  /\ resp' = NoResp
  /\ last' = Note("time")
  /\ UNCHANGED <<search, sessions, timerIntervals, intervals, timeouts, sseClients,
                 severed, issued, adjusts, sinceNext>>

\* The streams that are open: registered for some session
Open == UNION {Range(sseClients[sid]) : sid \in DOMAIN sseClients}

\* One request to GET /events, on a new connection
SseSubscribe ==
  \E sid \in RequestSids :
    /\ Open # Listeners
    /\ LET l == CHOOSE x \in Listeners : x \notin Open
           r == getEvents(World, sid, l)
       IN /\ Commit(r.w)
          /\ resp' = r.resp
          /\ last' = [Did("subscribe", sid, r.w) EXCEPT !.listener = l]
    /\ UNCHANGED <<search, now, issued, adjusts, sinceNext>>

\* The connection of an open stream breaks: from now on a write to it throws
SseSever ==
  \E l \in Open \ severed :
    /\ severed' = severed \cup {l}
    /\ out' = << >>
    /\ inbox' = NoWrites
    /\ resp' = NoResp
    /\ last' = [Note("sever") EXCEPT !.listener = l]
    /\ UNCHANGED <<search, sessions, timerIntervals, intervals, timeouts, sseClients, now,
                   issued, adjusts, sinceNext>>

\* The close event of an open stream
SseClose ==
  \E sid \in DOMAIN sseClients :
    \E l \in Range(sseClients[sid]) :
      /\ LET w == onClose(World, sid, l)
         IN /\ Commit([w EXCEPT !.severed = @ \ {l}])
            /\ last' = [Did("close", sid, w) EXCEPT !.listener = l]
      /\ resp' = NoResp
      /\ UNCHANGED <<search, now, issued, adjusts, sinceNext>>

\* The requests to POST /action that carry no value, on sessions of the store
CookActionPlain ==
  \E sid \in SessionIds :
    \E action \in Actions \ {"add_time", "set_time"} :
      DoAction(sid, action, Undefined)

Next ==
  \/ CookStart
  \/ CookAction
  \/ CookSession
  \/ IntervalFire
  \/ TimeoutFire
  \/ AdvanceTime

\* The sessions without listeners: every request, every callback
Spec == Init /\ [][Next]_vars

\* Timers and timeouts of the event loop fire when they are due, and time
\* passes; nothing obliges a client to send a request
SpecLive ==
  /\ Init
  /\ [][Next]_vars
  /\ WF_vars(IntervalFire)
  /\ WF_vars(TimeoutFire)
  /\ WF_vars(AdvanceTime)

\* The sessions with listeners: event streams are opened, break and are
\* closed while sessions are created, stepped through and stopped
NextSse ==
  \/ CookStart
  \/ CookActionPlain
  \/ IntervalFire
  \/ TimeoutFire
  \/ AdvanceTime
  \/ SseSubscribe
  \/ SseSever
  \/ SseClose

SpecSse == Init /\ [][NextSse]_vars

---------------------------------------------------------------------------
(* recipes.search *)

\* SORT_WEIGHTS, the one piece of module state recipesSearch reads
SORT_WEIGHTS ==
  [cookware |-> 30, pantry_usage |-> 25, time_fit |-> 15, family_fit |-> 12,
   leftover_potential |-> 10, equipment_match |-> 8]

DefaultLimit == 10     \* const { ..., limit = 10 } = context
LeftoverBonus == 15    \* score += 15

\* A name is text, kept as a sequence of pieces; pieces that differ only in
\* case are different pieces with the same lower-case form.
LowerOf ==
  [chicken |-> "chicken", Chicken |-> "chicken", breast |-> "breast",
   egg |-> "egg", Egg |-> "egg", EGG |-> "egg",
   rice |-> "rice", Rice |-> "rice", tofu |-> "tofu"]

\* String.prototype.toLowerCase
toLowerCase(name) == [i \in DOMAIN name |-> LowerOf[name[i]]]

\* a.includes(b): b occurs in a as a run of consecutive pieces
includes(a, b) ==
  \E i \in 0..(Len(a) - Len(b)) : SubSeq(a, i + 1, i + Len(b)) = b

\* new Set(list.map(x => x.toLowerCase()))
NameSet(names) == {toLowerCase(names[i]) : i \in DOMAIN names}

\* (recipe.recipe_ingredient || []).map(i => i.name.toLowerCase())
ingredientsOf(recipe) ==
  [i \in DOMAIN recipe.recipe_ingredient |-> toLowerCase(recipe.recipe_ingredient[i])]

\* The avoid test with the ingredient names taken as they are stored
avoidedAsStored(recipe, dsl) ==
  \E i \in DOMAIN recipe.recipe_ingredient :
    recipe.recipe_ingredient[i] \in NameSet(dsl.avoid)

\* ingredients.some(ing => avoidSet.has(ing))
avoided(recipe, dsl) ==
  \E i \in DOMAIN recipe.recipe_ingredient :
    ingredientsOf(recipe)[i] \in NameSet(dsl.avoid)

\* ingredients.filter(ing => [...names].some(p => p.includes(ing) || ing.includes(p))).length
Hits(ingredients, names) ==
  Cardinality({i \in DOMAIN ingredients :
                 \E p \in names : includes(p, ingredients[i]) \/ includes(ingredients[i], p)})

Opt(cond, reason) == IF cond THEN <<reason>> ELSE << >>

\* `uses-${preferred_appliance}`
UsesReason(appliance) ==
  CASE appliance = "air-fryer" -> "uses-air-fryer"
    [] appliance = "oven" -> "uses-oven"

\* The card of one recipe.  score is kept in hundredths: it is the integer
\* Math.round(score * 100), the sum being taken exactly.
scoreCard(wts, recipe, dsl, ctx) ==
  LET ingredients == ingredientsOf(recipe)
      n == IF Len(ingredients) >= 1 THEN Len(ingredients) ELSE 1
      cw == IF recipe.cookware_count = 0 THEN 1 ELSE recipe.cookware_count
      pantryHits == Hits(ingredients, NameSet(ctx.pantry_snapshot))
      mustUseHits == Cardinality({i \in DOMAIN ingredients :
                                    ingredients[i] \in NameSet(dsl.must_use)})
      t == recipe.time_total_min
      \* timeScore = tn / td
      tn == IF t <= 30 THEN wts.time_fit ELSE wts.time_fit * 30
      td == IF t <= 30 THEN 1 ELSE t
      kid == dsl.kid_friendly /\ recipe.kid_friendly
      familyScore == IF kid THEN wts.family_fit ELSE 0
      leftoverScore == IF "meal-prep" \in recipe.tags THEN wts.leftover_potential ELSE 0
      usesPreferred == /\ "preferred_appliance" \in DOMAIN ctx
                       /\ \E i \in DOMAIN recipe.equipment :
                            recipe.equipment[i] = ctx.preferred_appliance
      \* equipmentScore = equip2 / 2
      equip2 == IF usesPreferred THEN 2 * wts.equipment_match
                ELSE IF \E i \in DOMAIN recipe.equipment :
                          recipe.equipment[i] \in {"air-fryer", "sheet-pan", "one-pot"}
                     THEN wts.equipment_match
                     ELSE 0
      leftoverHits == Hits(ingredients, NameSet(ctx.leftovers))
      bonus == IF leftoverHits > 0 THEN LeftoverBonus ELSE 0
      \* score = num / den
      den == 6 * n * td
      num == (familyScore + leftoverScore + bonus) * den
             + (4 - cw) * wts.cookware * 2 * n * td
             + (pantryHits + mustUseHits * 2) * wts.pantry_usage * 6 * td
             + tn * 6 * n
             + equip2 * 3 * n * td
  IN [recipe_id |-> recipe.id,
      score |-> (200 * num + den) \div (2 * den),
      rank_reasons |->
        Opt(recipe.cookware_count <= 1, "one-pot")
        \o Opt(mustUseHits > 0, "uses-your-ingredients")
        \o Opt(t <= 20, "quick")
        \o Opt(kid, "kid-friendly")
        \o (IF usesPreferred THEN <<UsesReason(ctx.preferred_appliance)>> ELSE << >>)
        \o Opt(leftoverHits > 0, "uses-leftovers")]

\* A sort step that puts a card before the cards of the same score
RECURSIVE insertBeforeEqual(_, _)
insertBeforeEqual(sorted, c) ==
  IF sorted = << >> THEN <<c>>
  ELSE IF Head(sorted).score > c.score
       THEN <<Head(sorted)>> \o insertBeforeEqual(Tail(sorted), c)
       ELSE <<c>> \o sorted

\* One step of the stable sort: c goes behind every card whose score is not
\* lower than its own
RECURSIVE insertByScore(_, _)
insertByScore(sorted, c) ==
  IF sorted = << >> THEN <<c>>
  ELSE IF Head(sorted).score >= c.score
       THEN <<Head(sorted)>> \o insertByScore(Tail(sorted), c)
       ELSE <<c>> \o sorted

\* scoredRecipes.sort((a, b) => b.score - a.score), a stable sort
RECURSIVE sortByScore(_)
sortByScore(cards) ==
  IF cards = << >> THEN << >>
  ELSE insertByScore(sortByScore(SubSeq(cards, 1, Len(cards) - 1)), cards[Len(cards)])

\* The limit of a call: context.limit, 10 when it is absent
limitOf(ctx) == IF "limit" \in DOMAIN ctx THEN ctx.limit ELSE DefaultLimit

\* scoredRecipes.slice(0, limit), limit >= 0
slice(cards, limit) ==
  SubSeq(cards, 1, IF limit < Len(cards) THEN limit ELSE Len(cards))

\* recipesSearch that falls back to the unfiltered rows when the avoid filter
\* leaves none
recipesSearchRelaxed(wts, fetch, dsl, ctx) ==
  IF fetch[1] = "error" THEN [threw |-> TRUE, candidates |-> << >>]
  ELSE IF fetch[1] = "null" \/ fetch[2] = << >>
       THEN [threw |-> FALSE, candidates |-> << >>]
       ELSE LET filtered == SelectSeq(fetch[2], LAMBDA r : ~avoided(r, dsl))
                kept == IF filtered = << >> THEN fetch[2] ELSE filtered
                scoredRecipes == [i \in DOMAIN kept |-> scoreCard(wts, kept[i], dsl, ctx)]
            IN [threw |-> FALSE,
                candidates |-> slice(sortByScore(scoredRecipes), limitOf(ctx))]

\* recipesSearch: fetch is what the query gave (an error, null, or rows);
\* the result is a throw or the candidates
recipesSearch(wts, fetch, dsl, ctx) ==
  IF fetch[1] = "error" THEN [threw |-> TRUE, candidates |-> << >>]
  ELSE IF fetch[1] = "null" \/ fetch[2] = << >>
       THEN [threw |-> FALSE, candidates |-> << >>]
       ELSE LET kept == SelectSeq(fetch[2], LAMBDA r : ~avoided(r, dsl))
                scoredRecipes == [i \in DOMAIN kept |-> scoreCard(wts, kept[i], dsl, ctx)]
            IN [threw |-> FALSE,
                candidates |-> slice(sortByScore(scoredRecipes), limitOf(ctx))]

\* decision_time_ms: Date.now() - startTime
decisionTime(startTime, endTime) == endTime - startTime

\* The readings of Date.now(), in ms; a later reading is not a smaller one
Clock == {0, 1}

\* Weights that a call tunes for the calls after it
weightsTunedByCall(wts) == [wts EXCEPT !.cookware = @ + 3]

\* SORT_WEIGHTS after a call: recipesSearch assigns to no module state
weightsAfterCall(wts) == wts

(* The inputs of the calls under study *)

MaxCalls == 2      \* calls with the inputs under study
MaxOther == 1      \* calls with other inputs in between

Recipe(id, cw, t, kid, tags, equipment, ingredients) ==
  [id |-> id, cookware_count |-> cw, time_total_min |-> t, kid_friendly |-> kid,
   tags |-> tags, equipment |-> equipment, recipe_ingredient |-> ingredients]

Catalog ==
  << Recipe(1, 1, 20, TRUE, {"meal-prep"}, <<"air-fryer">>,
            << <<"Chicken", "breast">>, <<"rice">> >>),
     Recipe(2, 2, 45, FALSE, {}, << >>, << <<"egg">>, <<"rice">> >>),
     Recipe(3, 2, 45, FALSE, {}, << >>, << <<"Egg">>, <<"Rice">> >>),
     Recipe(4, 3, 30, TRUE, {}, <<"oven">>, << <<"tofu">> >>),
     Recipe(5, 0, 70, FALSE, {"meal-prep"}, <<"sheet-pan">>, << >>) >>

\* Eleven rows: one more than the default limit
ManyRows == [i \in 1..(DefaultLimit + 1) |->
               [Catalog[(i % 4) + 1] EXCEPT !.id = 10 + i]]

Pools ==
  { <<Catalog[2], Catalog[3], Catalog[1]>>,
    <<Catalog[3], Catalog[5], Catalog[2], Catalog[4]>>,
    <<Catalog[4], Catalog[1]>>,
    ManyRows }

Fetches == {<<"error">>, <<"null">>, <<"rows", << >> >>} \cup {<<"rows", p>> : p \in Pools}

Intents ==
  { [avoid |-> a, must_use |-> m, kid_friendly |-> k] :
      a \in { << >>, << <<"EGG">> >>, << <<"chicken">> >>, << <<"Rice">>, <<"tofu">> >> },
      m \in { << >>, << <<"Rice">> >> },
      k \in BOOLEAN }

Contexts ==
  LET base == { [pantry_snapshot |-> p, leftovers |-> l] :
                  p \in { << >>, << <<"Chicken">> >> },
                  l \in { << >>, << <<"egg">>, <<"tofu">> >> } }
      withLimit == base \cup
                   { [pantry_snapshot |-> c.pantry_snapshot, leftovers |-> c.leftovers,
                      limit |-> n] : c \in base, n \in {0, 2} }
  IN withLimit \cup
     { [pantry_snapshot |-> c.pantry_snapshot, leftovers |-> c.leftovers,
        preferred_appliance |-> "air-fryer"] : c \in base }

InitSearch ==
  /\ InitCook
  /\ search \in { [calls |-> 0, others |-> 0, weights |-> SORT_WEIGHTS,
                   fetch |-> f, dsl |-> d, ctx |-> c, results |-> << >>,
                   decision_time_ms |-> 0] :
                    f \in Fetches, d \in Intents, c \in Contexts }

\* One call of recipesSearch with the inputs under study; decision_time_ms
\* is that of the latest call
SearchCall ==
  /\ search.calls < MaxCalls
  /\ \E startTime \in Clock, endTime \in Clock :
       /\ startTime <= endTime
       /\ search' = [search EXCEPT
                       !.calls = @ + 1,
                       !.results = Append(@, recipesSearch(search.weights, search.fetch,
                                                           search.dsl, search.ctx)),
                       !.decision_time_ms = decisionTime(startTime, endTime),
                       !.weights = weightsAfterCall(@)]
  /\ UNCHANGED cookVars

\* One call of recipesSearch with other inputs: what is left of it is the
\* module state
SearchOther ==
  /\ search.others < MaxOther
  /\ search' = [search EXCEPT !.others = @ + 1, !.weights = weightsAfterCall(@)]
  /\ UNCHANGED cookVars

NextSearch ==
  \/ SearchCall
  \/ SearchOther

SpecSearch == InitSearch /\ [][NextSearch]_vars

---------------------------------------------------------------------------
(* Properties *)

\* The live timers of a session
Live(sid) == {iv \in intervals : iv.sid = sid}

Known(sid) == sid \in DOMAIN sessions
Remaining(sid) == sessions[sid].timer_remaining_sec
FullTimer(sid) == TimerSecOf(sessions[sid].steps, sessions[sid].current_step)
LastStep(sid) == Len(sessions[sid].steps) - 1
EventNames == {out[i].event : i \in DOMAIN out}

\* The last callback was a request to POST /action that was served
Served(action) == last.op = action /\ resp.ok

\* Every live timer of the session is the registered one and was started by
\* the last callback: it is first due a full period from now
StartedNow(sid) ==
  \A iv \in Live(sid) :
    /\ iv.due = now + 1
    /\ sid \in DOMAIN timerIntervals
    /\ timerIntervals[sid] = iv.id

\* C1: in every reachable state of a cooking session, whatever actions and
\* ticks came before, timer_remaining_sec is >= 0.
C1_TimerNonNegative ==
  \A sid \in DOMAIN sessions : Remaining(sid) >= 0

\* C2: a session never has more than one ticking interval: every live interval
\* is the one registered for its session, and it fires once per tick period, so
\* the session's remaining time is decremented at most once per period.
C2_OneIntervalPerSession ==
  \A sid \in SessionIds :
    /\ Cardinality(Live(sid)) <= 1
    /\ \A iv \in Live(sid) :
         /\ sid \in DOMAIN timerIntervals
         /\ timerIntervals[sid] = iv.id
         /\ iv.due >= now /\ iv.due <= now + 1

\* start was issued on a session that was cooking with a timer running, and a
\* timer runs
C2_Witness ==
  /\ Served("start") /\ last.from = "cooking" /\ last.live
  /\ Live(last.sid) # {}
  /\ now >= 1

\* C3: for every session in the store, 0 <= current_step < steps.length.
C3_StepInRange ==
  \A sid \in DOMAIN sessions :
    /\ sessions[sid].current_step >= 0
    /\ sessions[sid].current_step < Len(sessions[sid].steps)

\* next was issued at the last step
C3_Witness ==
  /\ Served("next")
  /\ last.step = LastStep(last.sid)
  /\ "cook_complete" \in EventNames

\* C4: a next applied before the last step increases current_step by exactly
\* 1 in any status; a next applied at the last step leaves current_step as it
\* is, stops the timer and sets the status to completed.
C4_NextAdvances ==
  Served("next") =>
    /\ Known(last.sid)
    /\ IF last.step < LastStep(last.sid)
       THEN sessions[last.sid].current_step = last.step + 1
       ELSE /\ sessions[last.sid].current_step = last.step
            /\ sessions[last.sid].status = "completed"
            /\ last.sid \notin DOMAIN timerIntervals
            /\ Live(last.sid) = {}

\* next moved a paused session one step on
C4_Witness ==
  /\ Served("next") /\ last.from = "paused"
  /\ sessions[last.sid].current_step = last.step + 1
  /\ sessions[last.sid].current_step >= 2

\* C5: a paused session has no timer, so no tick period that passes changes
\* its timer_remaining_sec; a pause leaves the value as it is, the second as
\* the first; a resume of a paused session keeps the value and, when it is
\* positive, starts a timer that first fires one period later; and every tick
\* reports the value before it minus 1.
C5_PauseResume ==
  /\ \A sid \in DOMAIN sessions :
       sessions[sid].status = "paused" =>
         Live(sid) = {} /\ sid \notin DOMAIN timerIntervals
  /\ Served("pause") =>
       /\ Remaining(last.sid) = last.timer
       /\ sessions[last.sid].status = "paused"
  /\ (Served("resume") /\ last.from = "paused") =>
       /\ Remaining(last.sid) = last.timer
       /\ sessions[last.sid].status = "cooking"
       /\ StartedNow(last.sid)
       /\ Remaining(last.sid) > 0 => Live(last.sid) # {}
  /\ \A i \in DOMAIN out :
       out[i].event = "timer_tick" =>
         /\ i = 1
         /\ last.op = "tick" /\ last.sid = out[i].session_id
         /\ out[i].data.remaining_sec = last.timer - 1
         /\ Remaining(last.sid) = last.timer - 1

\* a paused countdown that had partly run, its time never adjusted, was
\* resumed, and its timer runs
C5_Witness ==
  /\ Served("resume") /\ last.from = "paused"
  /\ adjusts = 0
  /\ Live(last.sid) # {}
  /\ Remaining(last.sid) > 0
  /\ Remaining(last.sid) < FullTimer(last.sid)

\* C6: next, prev and pause cancel the session's running timer before they
\* change the step, the remaining time or the status: after a next or a prev
\* that changes the step the remaining time is the new step's full timer value,
\* and the only timer that can be live after a next is one it has just started
\* (first due a full period later); after prev or pause no timer is live.
C6_CancelBeforeChange ==
  /\ Served("next") =>
       /\ StartedNow(last.sid)
       /\ Live(last.sid) # {} =>
            /\ sessions[last.sid].status = "cooking"
            /\ Remaining(last.sid) > 0
       /\ last.step < LastStep(last.sid) => Remaining(last.sid) = FullTimer(last.sid)
  /\ Served("prev") =>
       /\ last.step > 0 =>
            /\ sessions[last.sid].current_step = last.step - 1
            /\ Remaining(last.sid) = FullTimer(last.sid)
            /\ Live(last.sid) = {}
       /\ Live(last.sid) # {} => last.live /\ Remaining(last.sid) = last.timer
  /\ Served("pause") =>
       /\ Remaining(last.sid) = last.timer
       /\ Live(last.sid) = {}

\* prev left a step that has a timer while that timer was running
C6_Witness ==
  /\ Served("prev") /\ last.from = "cooking" /\ last.live
  /\ out # << >>
  /\ TimerSecOf(sessions[last.sid].steps, last.step) > 0
  /\ Remaining(last.sid) = FullTimer(last.sid)
  /\ Live(last.sid) = {}

\* C7: timer_done is broadcast by the tick that brings timer_remaining_sec to
\* <= 0, once, right after that tick's timer_tick, and by nothing else; that
\* tick leaves the session without a timer, every timer_tick comes from a live
\* timer, and a session without a timer gets one (and with it further ticks)
\* only through start, resume or next.
C7_TimerDoneOnce ==
  /\ \A i \in DOMAIN out :
       out[i].event = "timer_done" =>
         /\ last.op = "tick" /\ last.sid = out[i].session_id
         /\ i = 2 /\ Len(out) = 2
         /\ out[1].event = "timer_tick"
         /\ out[1].data.remaining_sec <= 0
         /\ last.timer > 0 => out[1].data.remaining_sec = 0
         /\ out[i].session_id \notin DOMAIN timerIntervals
         /\ Live(out[i].session_id) = {}
  /\ \A i \in DOMAIN out :
       (out[i].event = "timer_tick" /\ out[i].data.remaining_sec <= 0) =>
         /\ Len(out) = 2 /\ out[2].event = "timer_done"
  /\ \A i \in DOMAIN out :
       out[i].event = "timer_tick" => last.op = "tick" /\ last.live
  /\ (last.sid \in SessionIds /\ Live(last.sid) # {} /\ ~last.live) =>
       last.op \in {"start", "resume", "next"}

\* a countdown has just reached zero
C7_Witness ==
  /\ last.op = "tick" /\ last.timer = 1
  /\ Len(out) = 2
  /\ out[1].event = "timer_tick" /\ out[1].data.remaining_sec = 0
  /\ out[2].event = "timer_done"

C9_RejectedChangesNothing ==
  last.op \in Actions \cup UnknownActions =>
    /\ resp.code = IF last.sid = NoSid THEN 400
                   ELSE IF last.from = "none" THEN 404
                   ELSE IF last.op \notin Actions THEN 400
                   ELSE 200
    /\ resp.ok <=> resp.code = 200
    /\ ~resp.ok => last.same /\ out = << >>

\* a request named an unknown action on a session that was cooking with its
\* timer running, some time after that session was last updated
C9_Witness ==
  /\ last.op \in UnknownActions /\ last.from = "cooking" /\ last.live
  /\ resp.code = 400
  /\ sessions[last.sid].updated_at < now

\* C10: after a stop the session stays in the store until the grace delay of
\* that stop has elapsed: while a removal scheduled by a stop is still pending
\* and not yet due, the session it names is in the store.
C10_KeptDuringGrace ==
  \A to \in timeouts : to.due > now => to.sid \in DOMAIN sessions

\* C11: once a session is completed through next at its last step (no stop
\* was issued: no removal is pending), a further next changes none of
\* current_step, status and timer_remaining_sec, starts no timer and
\* broadcasts nothing.
C11_NextAfterCompletedIsNoOp ==
  (Served("next") /\ last.from = "completed"
     /\ \A to \in timeouts : to.sid # last.sid) =>
    /\ sessions[last.sid].current_step = last.step
    /\ sessions[last.sid].status = "completed"
    /\ Remaining(last.sid) = last.timer
    /\ Live(last.sid) = {}
    /\ out = << >>

C13_SetTime ==
  Served("set_time") =>
    LET v == last.value
        sid == last.sid
        valid == \/ v.kind = "number" /\ v.n >= 0
                 \/ v.kind = "string" /\ ~v.neg /\ v.digits # << >>
        n == IF v.kind = "number" THEN v.n ELSE DigitsValue(v.digits)
    IN /\ resp.code = 200
       /\ sessions[sid].current_step = last.step
       /\ sessions[sid].status = last.from
       /\ IF valid
          THEN /\ Remaining(sid) = n
               /\ resp.timer_remaining_sec = n
               /\ Len(out) = 1 /\ out[1].event = "timer_adjusted"
               /\ out[1].data.remaining_sec = n
          ELSE /\ Remaining(sid) = last.timer
               /\ out = << >>

\* set_time with a negative value on a session whose timer was running
C13_Witness ==
  /\ Served("set_time") /\ last.value = Num(-1)
  /\ last.live /\ last.timer > 0
  /\ Remaining(last.sid) = last.timer

\* C14: a start on a session of the store sets its status to cooking and
\* answers with status cooking; after it a timer of the session runs if and
\* only if timer_remaining_sec > 0, and the only event broadcast is
\* step_started for the current step.
C14_Start ==
  Served("start") =>
    /\ sessions[last.sid].status = "cooking"
    /\ resp.status = "cooking"
    /\ Live(last.sid) # {} <=> Remaining(last.sid) > 0
    /\ out = << Event("step_started", last.sid,
                  [step_order |-> StepOrderOf(sessions[last.sid].steps,
                                              sessions[last.sid].current_step)]) >>

\* C15: a request to create a session that names a recipe succeeds and puts
\* into the store a session with a non-empty step list, current_step 0, status
\* idle, timer_remaining_sec the first step's timer value (0 when it has none)
\* and no timer; its steps are the placeholder timeline when there is no
\* database client, when the lookup fails and when it gives no rows, and the
\* rows otherwise; a request that names no recipe is answered 400 and leaves
\* the store as it was.
C15_Create ==
  last.op = "create" =>
    IF last.sid = NoSid
    THEN resp.code = 400 /\ ~resp.ok /\ last.same
    ELSE /\ resp.code = 200 /\ resp.ok
         /\ last.from = "none"
         /\ last.sid \in DOMAIN sessions
         /\ LET s == sessions[last.sid]
                first == s.steps[1]
            IN /\ Len(s.steps) >= 1
               /\ s.current_step = 0
               /\ s.status = "idle"
               /\ s.timer_remaining_sec =
                    IF "timer_sec" \in DOMAIN first THEN first.timer_sec ELSE 0
               /\ s.steps = IF last.lookup[1] = "rows" /\ last.lookup[2] # << >>
                            THEN last.lookup[2]
                            ELSE getMockTimeline
         /\ Live(last.sid) = {}
         /\ last.sid \notin DOMAIN timerIntervals
         /\ out = << >>

\* a session was created although the lookup gave no rows
C15_Witness ==
  /\ last.op = "create" /\ last.lookup = <<"rows", << >> >>
  /\ last.sid \in DOMAIN sessions
  /\ sessions[last.sid].steps = getMockTimeline

\* C16: a request to open the event stream of a session of the store writes
\* to the new stream connected and then state_sync with the session's current
\* step, status and remaining time, and nothing else; a stream gets no event
\* of a callback unless it is registered; a request that names no session or
\* one not in the store is answered 400 and registers nothing.
C16_SubscribeSync ==
  /\ last.op = "subscribe" =>
       IF last.sid \in DOMAIN sessions
       THEN /\ resp.code = 200
            /\ last.listener \in Range(ClientsOf(World, last.sid))
            /\ inbox[last.listener] =
                 << Event("connected", last.sid, [session_id |-> last.sid]),
                    Event("state_sync", last.sid,
                      [current_step |-> sessions[last.sid].current_step,
                       status |-> sessions[last.sid].status,
                       timer_remaining_sec |-> Remaining(last.sid),
                       step |-> sessions[last.sid].steps[
                                  sessions[last.sid].current_step + 1]]) >>
            /\ sessions[last.sid].current_step = last.step
            /\ sessions[last.sid].status = last.from
            /\ Remaining(last.sid) = last.timer
            /\ out = << >>
       ELSE /\ resp.code = 400 /\ ~resp.ok
            /\ last.same
            /\ inbox = NoWrites
  /\ \A l \in Listeners : inbox[l] # << >> => l \in Open
  /\ \A l \in Listeners :
       \A i \in DOMAIN inbox[l] :
         inbox[l][i].event \in {"connected", "state_sync"} =>
           last.op = "subscribe" /\ last.listener = l /\ Len(inbox[l]) = 2

\* a second listener joined a session whose countdown had partly run
C16_Witness ==
  /\ last.op = "subscribe" /\ last.live
  /\ Len(ClientsOf(World, last.sid)) = 2
  /\ Len(inbox[last.listener]) = 2
  /\ inbox[last.listener][2].data.timer_remaining_sec < FullTimer(last.sid)
  /\ inbox[last.listener][2].data.timer_remaining_sec > 0

\* C17: whatever a callback publishes to a session reaches, in order, every
\* listener of the session whose connection is not broken, also when writes
\* to other listeners of the session fail; and the callback completes all the
\* same: an action on a session of the store is answered with success and has
\* its effect, a tick decrements the remaining time.
C17_DeliveryDespiteFailure ==
  /\ \A sid \in DOMAIN sseClients :
       \A l \in Range(sseClients[sid]) :
         (l \notin severed /\ ~(last.op = "subscribe" /\ last.listener = l)) =>
           inbox[l] = SelectSeq(out, LAMBDA e : e.session_id = sid)
  /\ \A l \in severed : inbox[l] = << >>
  /\ (last.op \in Actions /\ last.from # "none") =>
       /\ resp.ok /\ resp.code = 200
       /\ sessions[last.sid].updated_at = now
       /\ last.op = "pause" => sessions[last.sid].status = "paused"
       /\ last.op = "stop" => sessions[last.sid].status = "completed"
       /\ (last.op = "next" /\ last.step < LastStep(last.sid)) =>
            sessions[last.sid].current_step = last.step + 1
  /\ (last.op = "tick" /\ last.from = "cooking") =>
       /\ Remaining(last.sid) = last.timer - 1
       /\ out # << >>

\* next was served on a session with two listeners, the one added first with
\* a broken connection: the other one got both events
C17_Witness ==
  /\ Served("next") /\ Len(out) = 2
  /\ Len(ClientsOf(World, last.sid)) = 2
  /\ sseClients[last.sid][1] \in severed
  /\ sseClients[last.sid][2] \notin severed
  /\ inbox[sseClients[last.sid][2]] = out
  /\ inbox[sseClients[last.sid][1]] = << >>

\* Two names that differ at most in case
SameIgnoringCase(a, b) ==
  /\ Len(a) = Len(b)
  /\ \A i \in DOMAIN a : LowerOf[a[i]] = LowerOf[b[i]]

\* The rows a call under study fetched
Fetched == IF search.fetch[1] = "rows" THEN search.fetch[2] ELSE << >>

\* The rows that name an avoided ingredient, in whatever case
NamesAvoided(recipe) ==
  \E i \in DOMAIN recipe.recipe_ingredient :
    \E j \in DOMAIN search.dsl.avoid :
      SameIgnoringCase(recipe.recipe_ingredient[i], search.dsl.avoid[j])

\* C18: a fetched recipe with an ingredient that is on the avoid list, the
\* two names compared without regard to case, is in no call's candidates.
C18_AvoidExcluded ==
  search.calls > 0 =>
    \A k \in DOMAIN search.results :
      \A i \in DOMAIN Fetched :
        NamesAvoided(Fetched[i]) =>
          \A j \in DOMAIN search.results[k].candidates :
            search.results[k].candidates[j].recipe_id # Fetched[i].id

\* a call left out a recipe whose ingredient Egg is avoided as EGG, although
\* the limit had room for it, and returned others
C18_Witness ==
  /\ search.calls > 0
  /\ search.dsl.avoid = << <<"EGG">> >>
  /\ \E i \in DOMAIN Fetched :
       /\ NamesAvoided(Fetched[i])
       /\ <<"Egg">> \in Range(Fetched[i].recipe_ingredient)
  /\ search.results[1].candidates # << >>
  /\ Len(search.results[1].candidates) < limitOf(search.ctx)

\* The fetched rows that pass the avoid filter, in fetch order
Pool == SelectSeq(Fetched, LAMBDA r : ~NamesAvoided(r))

\* The score of the i-th row of the pool
PoolScore(i) == scoreCard(SORT_WEIGHTS, Pool[i], search.dsl, search.ctx).score

\* Row i of the pool ranks above row j: a higher score, or the same score
\* and fetched earlier
RanksAbove(i, j) ==
  \/ PoolScore(i) > PoolScore(j)
  \/ PoolScore(i) = PoolScore(j) /\ i < j

\* The place in the pool of the recipe of a card
PlaceOf(card) == CHOOSE i \in DOMAIN Pool : Pool[i].id = card.recipe_id

\* C19: the candidates of a call come in non-increasing score order, those
\* of equal score in fetch order, there are min(limit, size of the filtered
\* pool) of them (limit is 10 when absent), and every row of the filtered
\* pool that is not returned ranks below every one that is.
C19_SortedTopLimit ==
  \A k \in DOMAIN search.results :
    LET c == search.results[k].candidates
        picked == {PlaceOf(c[j]) : j \in DOMAIN c}
    IN ~search.results[k].threw =>
         /\ \A j \in DOMAIN c : \E i \in DOMAIN Pool : Pool[i].id = c[j].recipe_id
         /\ \A i, j \in DOMAIN c :
              i < j => /\ c[i].score >= c[j].score
                       /\ RanksAbove(PlaceOf(c[i]), PlaceOf(c[j]))
         /\ Len(c) <= limitOf(search.ctx)
         /\ Len(c) = IF limitOf(search.ctx) < Len(Pool) THEN limitOf(search.ctx)
                     ELSE Len(Pool)
         /\ \A i \in picked : \A j \in DOMAIN Pool \ picked : RanksAbove(i, j)

\* a call without a limit returned ten of eleven rows, two of them with the
\* same score
C19_Witness ==
  /\ search.calls > 0
  /\ "limit" \notin DOMAIN search.ctx
  /\ Len(Pool) > DefaultLimit
  /\ Len(search.results[1].candidates) = DefaultLimit
  /\ \E i, j \in DOMAIN search.results[1].candidates :
       /\ i < j
       /\ search.results[1].candidates[i].score = search.results[1].candidates[j].score
  /\ \E i, j \in DOMAIN search.results[1].candidates :
       search.results[1].candidates[i].score > search.results[1].candidates[j].score

C21_EmptyPool ==
  (search.calls > 0 /\ search.fetch[1] # "error" /\ Pool = << >>) =>
    \A k \in DOMAIN search.results :
      /\ ~search.results[k].threw
      /\ search.results[k].candidates = << >>
      /\ search.decision_time_ms >= 0

\* a call fetched rows, every one of them with an avoided ingredient, and
\* took some time
C21_Witness ==
  /\ search.calls > 0
  /\ Len(Fetched) >= 2
  /\ \A i \in DOMAIN Fetched : NamesAvoided(Fetched[i])
  /\ search.results[1].candidates = << >>
  /\ search.decision_time_ms > 0

\* The status changes the life cycle allows
StatusEdges ==
  { <<"idle", "cooking">>, <<"cooking", "paused">>, <<"paused", "cooking">>,
    <<"cooking", "completed">>, <<"paused", "completed">> }

\* C22: an action that is served either leaves the status as it was or
\* changes it along one of the edges idle->cooking, cooking->paused,
\* paused->cooking, cooking->completed, paused->completed.
C22_StatusEdges ==
  (last.op \in Actions /\ resp.ok) =>
    \/ sessions[last.sid].status = last.from
    \/ <<last.from, sessions[last.sid].status>> \in StatusEdges

\* C23: the callback that removes a session from the store finds it with
\* status completed (or finds it gone already): no session that is idle,
\* cooking or paused is removed.
C23_RemovedOnlyCompleted ==
  last.op = "reap" => last.from \in {"completed", "none"}

\* C24: in every reachable state, a session id for which a ticking interval is
\* registered names a session of the store whose status is cooking.
C24_IntervalImpliesCooking ==
  \A sid \in DOMAIN timerIntervals :
    /\ sid \in DOMAIN sessions
    /\ sessions[sid].status = "cooking"

\* C25: a tick that finds its session gone from the store, or with a status
\* other than cooking, cancels the timer and does nothing else: the session's
\* fields are as before, nothing is broadcast, and afterwards no interval is
\* registered or live for the session, so no later tick fires for that timer.
C25_StaleTickCancels ==
  (last.op = "tick" /\ last.from # "cooking") =>
    /\ out = << >>
    /\ last.sid \notin DOMAIN timerIntervals
    /\ Live(last.sid) = {}
    /\ IF last.from = "none" THEN ~Known(last.sid)
       ELSE /\ Known(last.sid)
            /\ sessions[last.sid].status = last.from
            /\ sessions[last.sid].current_step = last.step
            /\ Remaining(last.sid) = last.timer

\* a tick fired for a session that had been removed from the store
C25_Witness ==
  /\ last.op = "tick" /\ last.from = "none" /\ last.live
  /\ ~Known(last.sid)
  /\ Live(last.sid) = {}

\* C26: a tick leaves current_step and status as they were; the tick that
\* broadcasts timer_done leaves the session cooking on the same step with no
\* timer registered or live; and current_step grows only by a next.
C26_TickKeepsStep ==
  /\ (last.op = "tick" /\ last.from # "none") =>
       /\ Known(last.sid)
       /\ sessions[last.sid].current_step = last.step
       /\ sessions[last.sid].status = last.from
  /\ "timer_done" \in EventNames =>
       /\ last.op = "tick"
       /\ sessions[last.sid].status = "cooking"
       /\ sessions[last.sid].current_step = last.step
       /\ last.sid \notin DOMAIN timerIntervals
       /\ Live(last.sid) = {}
  /\ (last.from # "none" /\ Known(last.sid)
        /\ sessions[last.sid].current_step > last.step) => last.op = "next"

\* the countdown of a step that is not the last one has just ended, and the
\* session is still cooking on that step
C26_Witness ==
  /\ last.op = "tick" /\ last.from = "cooking"
  /\ "timer_done" \in EventNames
  /\ last.step < LastStep(last.sid)
  /\ sessions[last.sid].current_step = last.step
  /\ sessions[last.sid].status = "cooking"
  /\ Live(last.sid) = {}

\* C27: a prev at current_step > 0 leaves the session one step back with
\* timer_remaining_sec that step's full timer value, the status as it was and
\* no timer registered or live, cooking or not; a prev at step 0 leaves
\* current_step, status and timer_remaining_sec as they were, a running timer
\* running, and broadcasts nothing.
C27_Prev ==
  Served("prev") =>
    IF last.step > 0
    THEN /\ sessions[last.sid].current_step = last.step - 1
         /\ Remaining(last.sid) =
              TimerSecOf(sessions[last.sid].steps, last.step - 1)
         /\ sessions[last.sid].status = last.from
         /\ last.sid \notin DOMAIN timerIntervals
         /\ Live(last.sid) = {}
    ELSE /\ sessions[last.sid].current_step = 0
         /\ sessions[last.sid].status = last.from
         /\ Remaining(last.sid) = last.timer
         /\ (Live(last.sid) # {}) = last.live
         /\ out = << >>

\* prev took a cooking session back to a step with a timer, some time after
\* the session was created; no timer runs afterwards
C27_Witness ==
  /\ Served("prev") /\ last.from = "cooking" /\ last.step > 0
  /\ Remaining(last.sid) > 0
  /\ Remaining(last.sid) = FullTimer(last.sid)
  /\ sessions[last.sid].status = "cooking"
  /\ Live(last.sid) = {}
  /\ now >= 1

\* C28: an add_time that is served adds value seconds to
\* timer_remaining_sec when value parses to an integer and 60 when it is
\* missing or does not parse, and a timer runs after it exactly when one ran
\* before.
C28_AddTime ==
  Served("add_time") =>
    LET p == parseInt(last.value)
    IN /\ Remaining(last.sid) = last.timer + (IF p.nan THEN DefaultAddSec ELSE p.n)
       /\ (Live(last.sid) # {}) = last.live

\* A timer of the session runs with time left to count, and the clock has
\* the periods for it
Counting(sid) ==
  /\ Known(sid)
  /\ Remaining(sid) > 0
  /\ \E iv \in Live(sid) : iv.due + Remaining(sid) - 1 <= MaxTime

\* The last callback was a request that names the session
Acted(sid) == last.sid = sid /\ last.op \notin {"tick", "reap"}

\* The countdown of the session has just ended
TimerDone(sid) ==
  /\ last.op = "tick" /\ last.sid = sid
  /\ "timer_done" \in EventNames
  /\ Known(sid) /\ Remaining(sid) = 0
  /\ sid \notin DOMAIN timerIntervals
  /\ Live(sid) = {}

\* C29: when a timer runs for a session, then, unless a further request
\* names that session, ticks firing fairly, timer_remaining_sec reaches 0,
\* timer_done is broadcast and no interval stays registered for the session.
C29_TimerRunsDown ==
  \A sid \in SessionIds :
    (Counting(sid) /\ ~Acted(sid)) ~> (TimerDone(sid) \/ Acted(sid))

\* One name contains the other, case set aside
Contains(a, b) ==
  \/ includes(toLowerCase(a), toLowerCase(b))
  \/ includes(toLowerCase(b), toLowerCase(a))

\* Some ingredient of the recipe and some name of the list contain one another
MatchesAny(recipe, names) ==
  \E i \in DOMAIN recipe.recipe_ingredient :
    \E j \in DOMAIN names : Contains(recipe.recipe_ingredient[i], names[j])

\* C30: the avoid exclusion and the must-use hits compare names as the
\* pantry and leftover hits do, by containment in either direction with case
\* set aside: a fetched recipe with an ingredient that contains, or is
\* contained in, an avoided name is in no call's candidates, and a candidate
\* with an ingredient that matches a must-use name in that way carries the
\* reason uses-your-ingredients.
C30_SubstringEverywhere ==
  \A k \in DOMAIN search.results :
    /\ \A i \in DOMAIN Fetched :
         MatchesAny(Fetched[i], search.dsl.avoid) =>
           \A j \in DOMAIN search.results[k].candidates :
             search.results[k].candidates[j].recipe_id # Fetched[i].id
    /\ \A j \in DOMAIN search.results[k].candidates :
         \A i \in DOMAIN Fetched :
           (/\ Fetched[i].id = search.results[k].candidates[j].recipe_id
            /\ MatchesAny(Fetched[i], search.dsl.must_use)) =>
             \E r \in DOMAIN search.results[k].candidates[j].rank_reasons :
               search.results[k].candidates[j].rank_reasons[r] = "uses-your-ingredients"

====
